---- MODULE Spec2Model ----
(* Model of src/bracketex/solver.cpp: a stack-based bracket validator.        *)
(* A run reads a declared length and a string, scans the string left to      *)
(* right keeping a stack of the types of the open brackets, and prints one   *)
(* verdict line.                                                              *)
EXTENDS Integers, Sequences, FiniteSets, TLC

\* ---------------------------------------------------------------- bounds
\* Every string of at most MaxLen characters is an input.
MaxLen == 3
\* The declared length runs from 0 to the string's length plus MaxOverrun.
MaxOverrun == 2

\* ------------------------------------------------------- program constants
CURLY == 0
SQUARE == 1
ROUND == 2

OPEN == "OPEN"
CLOSE == "CLOSE"
\* A state_t object that compares equal to neither OPEN nor CLOSE: what a
\* caller may observe after bracket_state falls off its end.
INDETERMINATE == "INDETERMINATE"

\* ------------------------------------------------------------- characters
OpenGlyphs == {"{", "[", "("}
CloseGlyphs == {"}", "]", ")"}
Glyphs == OpenGlyphs \cup CloseGlyphs
\* The terminator that std::string yields at position size().
NUL == "NUL"
\* A representative of the characters that are not brackets.
NonBracket == "a"
Alphabet == Glyphs \cup {NonBracket}
\* What a read beyond position size() may yield.
PastEndChars == Glyphs \cup {NUL}

\* All values a bracket_t (uint8_t) may hold, cut to the three types and one
\* representative of the rest.
BracketValues == CURLY .. (ROUND + 1)

\* Faulty variant of bracket_type: the round closer is given the square type.
bracket_type_swapped(bracket) ==
    IF bracket \in {"}", "{"} THEN {CURLY}
    ELSE IF bracket \in {"]", "["} THEN {SQUARE}
    ELSE IF bracket = ")" THEN {SQUARE}
    ELSE IF bracket = "(" THEN {ROUND}
    ELSE BracketValues

\* bracket_type: the set of values the call may return. A character outside
\* the six glyphs reaches the end of the function without a return statement.
bracket_type(bracket) ==
    IF bracket \in {"}", "{"} THEN {CURLY}
    ELSE IF bracket \in {"]", "["} THEN {SQUARE}
    ELSE IF bracket \in {")", "("} THEN {ROUND}
    ELSE BracketValues

\* bracket_state: the set of values the call may return.
bracket_state(bracket) ==
    IF bracket \in {"}", ")", "]"} THEN {CLOSE}
    ELSE IF bracket \in {"{", "(", "["} THEN {OPEN}
    ELSE {OPEN, CLOSE, INDETERMINATE}

\* ------------------------------------------------------------------ state
VARIABLES
    brackets,       \* the string read from the input, a sequence of characters
    length,         \* the declared length read from the input
    index,          \* the loop variable of the scan
    open_brackets,  \* the stack of open bracket types, bottom first
    output,         \* the lines written to standard output
    pc,             \* "scan" inside or before the loop, "done" after return
    exit_status,    \* -1 while running, the value returned by main after it
    reads,          \* history: the indices at which brackets[index] was read
    stack_ub,       \* history: top() or pop() was called on an empty stack
    run,            \* the number of the current run of the program
    first_output    \* the output of the first run, once a second run started

vars == <<brackets, length, index, open_brackets, output, pc, exit_status,
          reads, stack_ub, run, first_output>>

Str(n) == [1 .. n -> Alphabet]
Strings == UNION {Str(n) : n \in 0 .. MaxLen}

\* Longer inputs, beyond the exhaustive bound.
Examples ==
    { <<"{", "[", "(", ")", "(", ")", "]", "}">>,
      <<"(", "[", ")", "]">>,
      <<"(", "(", ")", ")">>,
      <<"(", ")", "[", "]", "{", "}">>,
      <<"{", "[", "]", "(", ")", "}">>,
      <<"(", "[", "]", ")", "}">>,
      <<"(", "a", "[", "]", ")">>,
      <<"[", "{", "}", "]", "(">> }

Inputs == Strings \cup Examples

Top(stack) == stack[Len(stack)]
Pop(stack) == SubSeq(stack, 1, Len(stack) - 1)

\* The character that brackets[i] yields (i counted from 0, as in the code).
CharAt(i) ==
    IF i < Len(brackets) THEN {brackets[i + 1]}
    ELSE IF i = Len(brackets) THEN {NUL}
    ELSE PastEndChars

\* The outcomes of lines 63-65 at the current index: <<state, type>>.
Classified ==
    UNION { bracket_state(c) \X bracket_type(c) : c \in CharAt(index) }

\* Faulty variant of InLoop: a loop bounded by the string's own length.
InLoopBySize == pc = "scan" /\ index < Len(brackets)

\* Line 62: the loop condition.
InLoop == pc = "scan" /\ index < length

Init ==
    /\ brackets \in Inputs
    /\ length \in 0 .. (Len(brackets) + MaxOverrun)
    /\ index = 0
    /\ open_brackets = <<>>
    /\ output = <<>>
    /\ pc = "scan"
    /\ exit_status = -1
    /\ reads = <<>>
    /\ stack_ub = FALSE
    /\ run = 1
    /\ first_output = <<>>

\* Line 66-67: an opening bracket pushes its type.
ScanOpen ==
    /\ InLoop
    /\ \E k \in Classified :
        /\ k[1] = OPEN
        /\ open_brackets' = Append(open_brackets, k[2])
    /\ index' = index + 1
    /\ reads' = Append(reads, index)
    /\ UNCHANGED <<brackets, length, output, pc, exit_status, stack_ub, run,
                   first_output>>

\* Faulty variant of ScanCloseEmpty: the verdict is printed, the return is
\* missing and the scan goes on.
ScanCloseEmptyNoReturn ==
    /\ InLoop
    /\ \E k \in Classified : k[1] = CLOSE
    /\ open_brackets = <<>>
    /\ output' = Append(output, "Invalid")
    /\ index' = index + 1
    /\ reads' = Append(reads, index)
    /\ UNCHANGED <<brackets, length, open_brackets, pc, exit_status,
                   stack_ub, run, first_output>>

\* Lines 68-72: a closing bracket with nothing open ends the run.
ScanCloseEmpty ==
    /\ InLoop
    /\ \E k \in Classified : k[1] = CLOSE
    /\ open_brackets = <<>>
    /\ output' = Append(output, "Invalid")
    /\ pc' = "done"
    /\ exit_status' = 0
    /\ reads' = Append(reads, index)
    /\ UNCHANGED <<brackets, length, index, open_brackets, stack_ub, run,
                   first_output>>

\* Faulty variant of ScanCloseMismatch, in the order of the header comment
\* (lines 13-15): the type is compared with top() before the stack is known
\* to hold anything.
ScanCloseMismatchTopFirst ==
    /\ InLoop
    /\ \E k \in Classified :
        /\ k[1] = CLOSE
        /\ \/ open_brackets = <<>>
           \/ (open_brackets # <<>> /\ k[2] # Top(open_brackets))
    /\ stack_ub' = (stack_ub \/ open_brackets = <<>>)
    /\ output' = Append(output, "Invalid")
    /\ pc' = "done"
    /\ exit_status' = 0
    /\ reads' = Append(reads, index)
    /\ UNCHANGED <<brackets, length, index, open_brackets, run, first_output>>

\* Faulty variant of ScanCloseMismatch: the stack is popped before the run
\* ends.
ScanCloseMismatchPops ==
    /\ InLoop
    /\ open_brackets # <<>>
    /\ \E k \in Classified :
        /\ k[1] = CLOSE
        /\ k[2] # Top(open_brackets)
    /\ stack_ub' = (stack_ub \/ open_brackets = <<>>)
    /\ open_brackets' = Pop(open_brackets)
    /\ output' = Append(output, "Invalid")
    /\ pc' = "done"
    /\ exit_status' = 0
    /\ reads' = Append(reads, index)
    /\ UNCHANGED <<brackets, length, index, run, first_output>>

\* Lines 74-77: a closing bracket of another type than the top ends the run.
ScanCloseMismatch ==
    /\ InLoop
    /\ open_brackets # <<>>
    /\ \E k \in Classified :
        /\ k[1] = CLOSE
        /\ k[2] # Top(open_brackets)
    /\ stack_ub' = (stack_ub \/ open_brackets = <<>>)
    /\ output' = Append(output, "Invalid")
    /\ pc' = "done"
    /\ exit_status' = 0
    /\ reads' = Append(reads, index)
    /\ UNCHANGED <<brackets, length, index, open_brackets, run, first_output>>

\* Faulty variant of ScanCloseMatch: the stack is left as it is.
ScanCloseMatchNoPop ==
    /\ InLoop
    /\ open_brackets # <<>>
    /\ \E k \in Classified :
        /\ k[1] = CLOSE
        /\ k[2] = Top(open_brackets)
    /\ index' = index + 1
    /\ reads' = Append(reads, index)
    /\ UNCHANGED <<brackets, length, open_brackets, output, pc, exit_status,
                   stack_ub, run, first_output>>

\* Faulty variant of ScanCloseMatch: the stack is popped, the index is not
\* advanced and the same character is read again.
ScanCloseMatchRetry ==
    /\ InLoop
    /\ open_brackets # <<>>
    /\ \E k \in Classified :
        /\ k[1] = CLOSE
        /\ k[2] = Top(open_brackets)
    /\ stack_ub' = (stack_ub \/ open_brackets = <<>>)
    /\ open_brackets' = Pop(open_brackets)
    /\ reads' = Append(reads, index)
    /\ UNCHANGED <<brackets, length, index, output, pc, exit_status, run,
                   first_output>>

\* Lines 74-80: a closing bracket of the top's type pops it.
ScanCloseMatch ==
    /\ InLoop
    /\ open_brackets # <<>>
    /\ \E k \in Classified :
        /\ k[1] = CLOSE
        /\ k[2] = Top(open_brackets)
    /\ stack_ub' = (stack_ub \/ open_brackets = <<>>)
    /\ open_brackets' = Pop(open_brackets)
    /\ index' = index + 1
    /\ reads' = Append(reads, index)
    /\ UNCHANGED <<brackets, length, output, pc, exit_status, run,
                   first_output>>

\* Lines 66-81 when state is neither OPEN nor CLOSE: no branch is taken.
ScanNeither ==
    /\ InLoop
    /\ \E k \in Classified : k[1] \notin {OPEN, CLOSE}
    /\ index' = index + 1
    /\ reads' = Append(reads, index)
    /\ UNCHANGED <<brackets, length, open_brackets, output, pc, exit_status,
                   stack_ub, run, first_output>>

\* Faulty variant of Finish: what is left on the stack is ignored.
FinishAlwaysValid ==
    /\ pc = "scan"
    /\ index >= length
    /\ output' = Append(output, "Valid")
    /\ pc' = "done"
    /\ exit_status' = 0
    /\ UNCHANGED <<brackets, length, index, open_brackets, reads, stack_ub,
                   run, first_output>>

\* Lines 84-90: the loop has ended; the verdict is whether the stack is empty.
Finish ==
    /\ pc = "scan"
    /\ index >= length
    /\ output' = Append(output,
                        IF open_brackets = <<>> THEN "Valid" ELSE "Invalid")
    /\ pc' = "done"
    /\ exit_status' = 0
    /\ UNCHANGED <<brackets, length, index, open_brackets, reads, stack_ub,
                   run, first_output>>

Next ==
    \/ ScanOpen
    \/ ScanCloseEmpty
    \/ ScanCloseMismatch
    \/ ScanCloseMatch
    \/ ScanNeither
    \/ Finish

Spec == Init /\ [][Next]_vars

\* The scan is a loop of one thread: a step that can be taken is taken.
FairSpec == Spec /\ WF_vars(Next)

\* Faulty variant of Rerun: the second run finds the stack of the first.
RerunKeepStack ==
    /\ pc = "done"
    /\ run = 1
    /\ run' = 2
    /\ first_output' = output
    /\ index' = 0
    /\ output' = <<>>
    /\ pc' = "scan"
    /\ exit_status' = -1
    /\ reads' = <<>>
    /\ UNCHANGED <<brackets, length, open_brackets, stack_ub>>

\* Lines 50-60 again: the program is run a second time on the same input.
\* Every object of main is constructed anew; no object outlives a run.
Rerun ==
    /\ pc = "done"
    /\ run = 1
    /\ run' = 2
    /\ first_output' = output
    /\ index' = 0
    /\ open_brackets' = <<>>
    /\ output' = <<>>
    /\ pc' = "scan"
    /\ exit_status' = -1
    /\ reads' = <<>>
    /\ UNCHANGED <<brackets, length, stack_ub>>

NextRerun == Next \/ Rerun

SpecRerun == Init /\ [][NextRerun]_vars

\* ------------------------------------------------- reference definitions
\* What the claims speak of, defined without the program's stack.

Min(a, b) == IF a < b THEN a ELSE b

IsGlyphString(s) == \A i \in 1 .. Len(s) : s[i] \in Glyphs

\* The input is N bracket glyphs with N the declared length.
WellFormedInput == length = Len(brackets) /\ IsGlyphString(brackets)

\* The characters the declared length covers are bracket glyphs of the string.
InDomain ==
    /\ length <= Len(brackets)
    /\ IsGlyphString(SubSeq(brackets, 1, length))

\* The part of the string the declared length covers.
DeclaredPrefix == SubSeq(brackets, 1, Min(length, Len(brackets)))

Pairs == {<<"{", "}">>, <<"[", "]">>, <<"(", ")">>}
Matches(o, c) == <<o, c>> \in Pairs

\* The Bracket Type of a glyph.
GlyphType(c) ==
    CASE c \in {"{", "}"} -> CURLY
      [] c \in {"[", "]"} -> SQUARE
      [] c \in {"(", ")"} -> ROUND

\* The standard definition: a balanced sequence is empty, or an opener, a
\* balanced sequence, the opener's closer, and a balanced sequence.
RECURSIVE Balanced(_)
Balanced(s) ==
    \/ Len(s) = 0
    \/ \E j \in 2 .. Len(s) :
        /\ Matches(s[1], s[j])
        /\ Balanced(SubSeq(s, 2, j - 1))
        /\ Balanced(SubSeq(s, j + 1, Len(s)))

RefVerdict(s) == IF Balanced(s) THEN "Valid" ELSE "Invalid"

\* The run ended inside the loop (lines 71 and 77), not after it.
ShortCircuited == pc = "done" /\ index < length

\* ------------------------------------------------------------------ claims

\* C1: for a string of bracket glyphs whose declared length is its length,
\* the program prints Valid exactly when the string is balanced; the empty
\* string and {[()()]} give Valid; (], ([), ([ and every string that starts
\* with a closing bracket give Invalid.
C1_ValidIffBalanced ==
    (pc = "done" /\ WellFormedInput) =>
        /\ output \in {<<"Valid">>, <<"Invalid">>}
        /\ (output = <<"Valid">>) <=> Balanced(brackets)
        /\ brackets = <<>> => output = <<"Valid">>
        /\ brackets = <<"{", "[", "(", ")", "(", ")", "]", "}">>
              => output = <<"Valid">>
        /\ brackets \in {<<"(", "]">>, <<"(", "[", ")">>, <<"(", "[">>}
              => output = <<"Invalid">>
        /\ (Len(brackets) > 0 /\ brackets[1] \in CloseGlyphs)
              => output = <<"Invalid">>

C1_Witness ==
    /\ pc = "done"
    /\ WellFormedInput
    /\ brackets = <<"{", "[", "(", ")", "(", ")", "]", "}">>
    /\ output = <<"Valid">>

\* C2: a run writes its verdict exactly once, Valid or Invalid, and after
\* the verdict nothing more is scanned or written.
C2_VerdictOnce ==
    /\ [](/\ Len(output) <= 1
          /\ \A i \in 1 .. Len(output) : output[i] \in {"Valid", "Invalid"}
          /\ (pc = "done") <=> (Len(output) = 1))
    /\ [][Len(output) >= 1 => (output' = output /\ reads' = reads
                                 /\ index' = index)]_vars

C2_Witness ==
    /\ pc = "done"
    /\ output = <<"Invalid">>
    /\ index + 1 < length
    /\ index + 1 < Len(brackets)

\* The indices 0, 1, ..., n - 1 in order.
Upto(n) == [i \in 1 .. n |-> i - 1]

\* C3: on N bracket glyphs the scan reads at most N characters, each at most
\* once and in increasing index order, and the run ends with a verdict and a
\* success exit status; it never ends in, or stays in, any other state.
C3_Terminates ==
    WellFormedInput =>
        /\ [](/\ Len(reads) <= length
              /\ reads = Upto(Len(reads))
              /\ pc = "scan" => exit_status = -1
              /\ pc = "done" => (exit_status = 0 /\ Len(output) = 1))
        /\ <>(pc = "done" /\ exit_status = 0)

C3_Witness ==
    /\ WellFormedInput
    /\ pc = "done"
    /\ exit_status = 0
    /\ length = MaxLen
    /\ reads = Upto(length)

Strip(s) == SelectSeq(s, LAMBDA c : c \in Glyphs)

\* C5: a character that is not a bracket leaves the stack unchanged and
\* causes no verdict, and the verdict for a string is the verdict for the
\* string without such characters.
C5_NonBracketIgnored ==
    /\ [][(InLoop /\ index < Len(brackets) /\ brackets[index + 1] \notin Glyphs)
            => (open_brackets' = open_brackets /\ output' = output
                /\ pc' = pc)]_vars
    /\ []((pc = "done" /\ length = Len(brackets))
            => output = <<RefVerdict(Strip(brackets))>>)

\* The full-scan variant: a failing closer latches the failure, the scan
\* goes on to the end, and the verdict is Valid only if nothing was latched
\* and the stack is empty. The stack holds the opening glyphs.
RECURSIVE FullScan(_, _, _)
FullScan(s, stack, failed) ==
    IF Len(s) = 0
    THEN IF ~failed /\ stack = <<>> THEN "Valid" ELSE "Invalid"
    ELSE IF s[1] \in OpenGlyphs
         THEN FullScan(Tail(s), IF failed THEN stack ELSE Append(stack, s[1]),
                       failed)
         ELSE IF failed \/ stack = <<>> \/ ~Matches(stack[Len(stack)], s[1])
              THEN FullScan(Tail(s), stack, TRUE)
              ELSE FullScan(Tail(s), SubSeq(stack, 1, Len(stack) - 1), failed)

\* C6: on bracket glyphs the verdict of the short-circuiting scan is the
\* verdict of the full-scan variant.
C6_ShortCircuitSameVerdict ==
    (pc = "done" /\ InDomain)
        => output = <<FullScan(SubSeq(brackets, 1, length), <<>>, FALSE)>>

C6_Witness ==
    /\ ShortCircuited
    /\ InDomain
    /\ index + 1 < length
    /\ open_brackets # <<>>
    /\ brackets[length] \in CloseGlyphs

\* The opening bracket at position i of s has its closer in s.
Matched(s, i) ==
    \E j \in (i + 1) .. Len(s) :
        /\ Matches(s[i], s[j])
        /\ Balanced(SubSeq(s, i + 1, j - 1))

\* The types of the opening brackets of s that have no closer in s, in the
\* order they were opened.
Unmatched(s) ==
    LET open == SelectSeq([i \in 1 .. Len(s) |-> i],
                          LAMBDA i : s[i] \in OpenGlyphs /\ ~Matched(s, i))
    IN  [k \in 1 .. Len(open) |-> GlyphType(s[open[k]])]

Count(s, set) == Cardinality({i \in 1 .. Len(s) : s[i] \in set})

\* The first index characters are bracket glyphs of the string.
ScannedGlyphs ==
    /\ index <= Len(brackets)
    /\ IsGlyphString(SubSeq(brackets, 1, index))

\* C7: while the scan has not short-circuited, after k bracket glyphs the
\* stack holds, bottom to top, the types of the opening brackets among them
\* that are not yet closed, and its height is Opens minus Closes.
C7_StackIsUnmatchedOpens ==
    (~ShortCircuited /\ ScannedGlyphs) =>
        LET scanned == SubSeq(brackets, 1, index)
        IN  /\ open_brackets = Unmatched(scanned)
            /\ Len(open_brackets)
                 = Count(scanned, OpenGlyphs) - Count(scanned, CloseGlyphs)
            /\ reads = Upto(index)

C7_Witness ==
    /\ pc = "scan"
    /\ ScannedGlyphs
    /\ index = 4
    /\ open_brackets = <<CURLY, SQUARE>>
    /\ brackets[index] \in CloseGlyphs

\* The scan is at a closing bracket of the string.
AtCloser ==
    InLoop /\ index < Len(brackets) /\ brackets[index + 1] \in CloseGlyphs

\* The closer under the scan fails: nothing is open, or the top is of
\* another type.
CloserFails ==
    \/ open_brackets = <<>>
    \/ Top(open_brackets) # GlyphType(brackets[index + 1])

\* C8: a closing bracket that finds the stack empty or a different type on
\* top yields Invalid there, leaves the stack as it is and ends the scan with
\* no later character classified; a closing bracket of the top's type pops
\* one element and the scan goes on.
C8_CloserStep ==
    /\ [][AtCloser =>
            IF CloserFails
            THEN /\ output' = Append(output, "Invalid")
                 /\ pc' = "done"
                 /\ open_brackets' = open_brackets
                 /\ index' = index
                 /\ reads' = Append(reads, index)
            ELSE /\ open_brackets' = Pop(open_brackets)
                 /\ index' = index + 1
                 /\ pc' = "scan"
                 /\ output' = output]_vars
    /\ [](ShortCircuited =>
            /\ output = <<"Invalid">>
            /\ reads = Upto(index + 1)
            /\ ~ENABLED Next)

C8_Witness ==
    /\ ShortCircuited
    /\ index + 1 < Len(brackets)
    /\ index + 1 < length
    /\ brackets[index + 1] \in CloseGlyphs
    /\ open_brackets # <<>>
    /\ Top(open_brackets) # GlyphType(brackets[index + 1])

Range(s) == {s[i] : i \in 1 .. Len(s)}

\* C10: the declared length bounds the scan. No position at or beyond it is
\* read, so a declared length below the string's length gives the verdict
\* of that prefix; with a declared length above the string's length the loop
\* does not stop at the last character but reads position size() and on.
C10_DeclaredLengthBounds ==
    /\ \A i \in Range(reads) : i < length
    /\ (pc = "done" /\ InDomain) => output = <<RefVerdict(DeclaredPrefix)>>
    /\ (pc = "scan" /\ index >= Len(brackets) /\ index < length)
          => (ENABLED Next /\ ~ENABLED Finish)
    /\ (pc = "done" /\ ~ShortCircuited /\ length > Len(brackets))
          => (Len(brackets) .. (length - 1)) \subseteq Range(reads)

C10_Witness ==
    /\ pc = "done"
    /\ Len(brackets) > 0
    /\ length > Len(brackets) + 1
    /\ (Len(brackets) + 1) \in Range(reads)

\* The other case of C10: a declared length below the string's length, where
\* the rest of the string would have changed the verdict.
C10_WitnessShort ==
    /\ pc = "done"
    /\ length < Len(brackets)
    /\ output = <<"Valid">>
    /\ ~Balanced(brackets)

====
